---- MODULE Spec2Model ----
(***************************************************************************)
(* A model of the journey summariser of bods-bus-data-collector            *)
(* (src/journey_summariser.py, src/bus_data_models.py).                    *)
(*                                                                         *)
(* Time is an integer count of ticks since the epoch; an hour holds        *)
(* TicksPerHour ticks and a day HoursPerDay hours.  A pandas DataFrame is   *)
(* a sequence of rows (records); a float is an exact rational <<n, d>>     *)
(* with d > 0 in lowest terms (rounding is not modelled), and NaN, the     *)
(* "no value" marker of pandas, is <<0, 0>>.  An exception is a result     *)
(* tagged "raise".                                                         *)
(* pandas is taken to be a 1.x release, where Series.append exists.        *)
(***************************************************************************)
EXTENDS Integers, Sequences, FiniteSets, TLC

VARIABLES
    db,         \* table bus_location: sequence of rows, ascending id
    sink,       \* table journey_summary: set of committed rows
    pc,         \* "idle" | "process_day" | "done" | "raised"
    mode,       \* "none" | "day" (process_day called alone) | "all" (process_all_in_db)
    start_dt,   \* process_day's start_dt
    end_dt,     \* process_day's end_dt
    chunk_size, \* process_day's chunk_size, in hours
    chunks,     \* process_day's zip(day_rrule, offset_day_rrule)
    k,          \* number of loop iterations of process_day already taken
    day_pairs,  \* process_all_in_db: zip(first_rrule, second_rrule)
    day_i,      \* number of loop iterations of process_all_in_db already taken
    fetched,    \* history: [lo, hi, ids] of every chunk query that returned rows
    days,       \* history: the day_start of every call of process_day by process_all_in_db
    err,        \* the exception that ended the run ("" when none)
    frame,      \* pure pipeline: the input window of pings
    out         \* pure pipeline: result of the last function applied

vars == <<db, sink, pc, mode, start_dt, end_dt, chunk_size, chunks, k, day_pairs, day_i,
          fetched, days, err, frame, out>>

orch_vars == <<db, sink, pc, mode, start_dt, end_dt, chunk_size, chunks, k, day_pairs, day_i,
               fetched, days, err>>

-----------------------------------------------------------------------------
(* Bounds and program constants *)

MaxPings == 3          \* rows of bus_location / pings of an input window
TicksPerHour == 2      \* resolution of a datetime below the hour
HoursPerDay == 24
drop_threshold == 2    \* preprocess_locations' default
stopped_threshold == 1 \* summarise_journey_stats' default, mph

DayTicks == HoursPerDay * TicksPerHour

\* The datetime of tick m of hour h of day d.
At(d, h, m) == (d * HoursPerDay + h) * TicksPerHour + m

-----------------------------------------------------------------------------
(* Exact rationals standing for floats *)

NaN == <<0, 0>>

Abs(x) == IF x < 0 THEN -x ELSE x

RECURSIVE Gcd(_, _)
Gcd(a, b) == IF b = 0 THEN a ELSE Gcd(b, a % b)

\* n / d for d # 0, in lowest terms with a positive denominator
Rat(n, d) ==
    LET s == IF d < 0 THEN -1 ELSE 1
        g == Gcd(Abs(n), Abs(d))
    IN  <<(s * n) \div g, Abs(d) \div g>>

RAdd(a, b) == Rat(a[1] * b[2] + b[1] * a[2], a[2] * b[2])
RDiv(a, b) == Rat(a[1] * b[2], a[2] * b[1])
RLess(a, b) == a[1] * b[2] < b[1] * a[2]
RLeq(a, b) == a[1] * b[2] <= b[1] * a[2]

RECURSIVE RSum(_)
RSum(s) == IF s = <<>> THEN Rat(0, 1) ELSE RAdd(Head(s), RSum(Tail(s)))

\* pandas Series.mean / min / max / median: NaN on an empty series
RMean(s) == IF s = <<>> THEN NaN ELSE RDiv(RSum(s), Rat(Len(s), 1))
RMin(s) == IF s = <<>> THEN NaN
           ELSE CHOOSE x \in {s[i] : i \in 1..Len(s)} :
                    \A y \in {s[i] : i \in 1..Len(s)} : RLeq(x, y)
RMax(s) == IF s = <<>> THEN NaN
           ELSE CHOOSE x \in {s[i] : i \in 1..Len(s)} :
                    \A y \in {s[i] : i \in 1..Len(s)} : RLeq(y, x)
RMedian(s) ==
    IF s = <<>> THEN NaN
    ELSE LET t == SortSeq(s, RLess)
             n == Len(t)
         IN  IF n % 2 = 1 THEN t[(n + 1) \div 2]
             ELSE RDiv(RAdd(t[n \div 2], t[n \div 2 + 1]), Rat(2, 1))

Column(df, c) == [i \in 1..Len(df) |-> df[i][c]]

-----------------------------------------------------------------------------
(* Rows of bus_location (BusLocation) *)

Timestamps == {At(0, 23, 1), At(1, 1, 1)}
DepartureTimes == {At(0, 23, 1), At(1, 0, 1)}
Lats == {0, 1}

\* A report without its primary key.
Reports ==
    [timestamp : Timestamps,
     line_ref : {"8"},
     direction_ref : {"outbound"},
     line_name : {"8"},
     operator_ref : {"FECS"},
     origin_ref : {"0500CCITY"},
     origin_name : {"Drummer_Street"},
     destination_ref : {"0500SCAMB"},
     destination_name : {"Cambourne"},
     origin_aimed_departure_time : DepartureTimes,
     vehicle_lat : Lats,
     vehicle_lon : {0},
     vehicle_bearing : {90},
     vehicle_journey_ref : {"1042"},
     vehicle_ref : {"FE-590"}]

\* The table after the reports of s were inserted in order: id is the
\* autoincremented primary key.
WithIds(s) == [i \in 1..Len(s) |-> [id |-> i] @@ s[i]]

RECURSIVE SeqsUpTo(_, _)
SeqsUpTo(S, n) ==
    IF n = 0 THEN {<<>>}
    ELSE LET shorter == SeqsUpTo(S, n - 1)
         IN  shorter \cup {Append(s, x) : s \in {t \in shorter : Len(t) = n - 1}, x \in S}

Tables == {WithIds(s) : s \in SeqsUpTo(Reports, MaxPings)}

-----------------------------------------------------------------------------
(* preprocess_locations *)

Pad2(n) == IF n < 10 THEN "0" \o ToString(n) ELSE ToString(n)

\* dt.floor("h")
FloorHour(t) == (t \div TicksPerHour) * TicksPerHour

\* dt.strftime("%Y-%m-%d"): the calendar day
StrfDate(t) == "D" \o Pad2(t \div DayTicks)

\* dt.strftime("%Y-%m-%dT%H:%M%s"): day, hour, minute and then (glibc's %s)
\* the seconds since the epoch
StrfDateTimeEpoch(t) ==
    StrfDate(t) \o "T" \o Pad2((t % DayTicks) \div TicksPerHour) \o ":"
        \o Pad2(t % TicksPerHour) \o ToString(t)

vehicle_journey_date_ref(r) ==
    StrfDate(r.origin_aimed_departure_time) \o "_" \o r.vehicle_journey_ref

journey_date_line_ref(r) ==
    r.operator_ref \o "_" \o StrfDateTimeEpoch(r.origin_aimed_departure_time)
        \o "_" \o r.line_ref \o "_" \o r.vehicle_journey_ref

\* The columns DataFrame.drop_duplicates compares.
DupSubset(r) ==
    <<r.timestamp, r.line_ref, r.direction_ref,
      r.vehicle_lat, r.vehicle_lon, r.vehicle_bearing>>

\* DataFrame.drop_duplicates(subset=..., keep="last")
drop_duplicates_keep_last(df) ==
    SelectSeq(df, LAMBDA r : \A j \in 1..Len(df) :
                      (DupSubset(df[j]) = DupSubset(r) /\ df[j].id # r.id)
                          => \E i \in (j + 1)..Len(df) : df[i].id = r.id)

\* DataFrame.drop_duplicates(subset=...), keep="first"
drop_duplicates(df) ==
    LET keep(i) == \A j \in 1..(i - 1) : DupSubset(df[j]) # DupSubset(df[i])
        F[i \in 0..Len(df)] ==
            IF i = 0 THEN <<>>
            ELSE IF keep(i) THEN Append(F[i - 1], df[i]) ELSE F[i - 1]
    IN  F[Len(df)]

\* The HourBucket: origin_aimed_departure_time floored to the hour.
hour(r) == FloorHour(r.origin_aimed_departure_time)

\* The three derived columns, assigned to every row.
AddDerived(df) ==
    [i \in 1..Len(df) |->
        [hour |-> hour(df[i]),
         vehicle_journey_date_ref |-> vehicle_journey_date_ref(df[i]),
         journey_date_line_ref |-> journey_date_line_ref(df[i])] @@ df[i]]

\* groupby("journey_date_line_ref")["id"].count(), for one key
jdl_count(df, key) ==
    Cardinality({i \in 1..Len(df) : df[i].journey_date_line_ref = key})

\* The rows of the journeys that have at least threshold rows.
DropShortJourneys(df, threshold) ==
    SelectSeq(df, LAMBDA r : ~(jdl_count(df, r.journey_date_line_ref) < threshold))

\* sort_values(by=["timestamp", "id"])
ByTimestampThenId(a, b) ==
    \/ a.timestamp < b.timestamp
    \/ a.timestamp = b.timestamp /\ a.id < b.id

\* The Normalizer, were it to count the rows of a journey before it drops
\* the duplicates.
preprocess_locations_counting_first(raw_locations_df, threshold) ==
    SortSeq(SelectSeq(drop_duplicates(AddDerived(raw_locations_df)),
                      LAMBDA r : ~(jdl_count(AddDerived(raw_locations_df),
                                             r.journey_date_line_ref) < threshold)),
            ByTimestampThenId)

preprocess_locations(raw_locations_df, threshold) ==
    SortSeq(DropShortJourneys(AddDerived(drop_duplicates(raw_locations_df)), threshold),
            ByTimestampThenId)

-----------------------------------------------------------------------------
(* calculate_deltas *)

\* geopy's distance.distance(a, b).miles, abstracted to a metric on the grid
\* of modelled positions (one unit of latitude or longitude is one mile).
Miles(pos_a, pos_b) ==
    Abs(pos_a.vehicle_lat - pos_b.vehicle_lat)
        + Abs(pos_a.vehicle_lon - pos_b.vehicle_lon)

\* (pos_b.timestamp - pos_a.timestamp).total_seconds() / 3600
ElapsedHours(pos_a, pos_b) == Rat(pos_b.timestamp - pos_a.timestamp, TicksPerHour)

\* The dict appended for one pair of consecutive positions.
Delta(pos_a, pos_b) ==
    LET dist == Rat(Miles(pos_a, pos_b), 1)
        time == ElapsedHours(pos_a, pos_b)
    IN  [time |-> time, speed |-> RDiv(dist, time), dist |-> dist]

\* The loop, were it to stop one pair short.
calculate_deltas_one_pair_short(route_positions) ==
    LET F[i \in 0..Len(route_positions)] ==
            IF i <= 1 THEN <<>>
            ELSE IF ElapsedHours(route_positions[i - 1], route_positions[i]) # Rat(0, 1)
                 THEN Append(F[i - 1], Delta(route_positions[i - 1], route_positions[i]))
                 ELSE F[i - 1]
    IN  F[Len(route_positions) - 1]

\* speed_times after the loop over zip(route_positions[:-1], route_positions[1:])
calculate_deltas(route_positions) ==
    LET F[i \in 0..Len(route_positions)] ==
            IF i <= 1 THEN <<>>
            ELSE IF ElapsedHours(route_positions[i - 1], route_positions[i]) # Rat(0, 1)
                 THEN Append(F[i - 1], Delta(route_positions[i - 1], route_positions[i]))
                 ELSE F[i - 1]
    IN  F[Len(route_positions)]

\* The columns of pd.DataFrame(list_of_dicts): none when the list is empty.
DeltaColumns(route_deltas) ==
    IF route_deltas = <<>> THEN {} ELSE {"time", "speed", "dist"}

-----------------------------------------------------------------------------
(* summarise_journey_stats, summarise_journey, summarise_all_journeys *)

Raise(e) == [tag |-> "raise", err |-> e]
Value(v) == [tag |-> "value", val |-> v]
None == [tag |-> "none"]

summarise_journey_stats(route_deltas) ==
    IF "speed" \notin DeltaColumns(route_deltas) THEN Raise("KeyError: 'speed'")
    ELSE LET time == Column(route_deltas, "time")
             dist == Column(route_deltas, "dist")
             speed == Column(route_deltas, "speed")
         IN  Value(
             [num_points_stationary |->
                  Len(SelectSeq(speed, LAMBDA v : RLess(v, Rat(stopped_threshold, 1)))),
              num_points |-> Len(route_deltas),
              time_total_hrs |-> RSum(time),
              time_intv_med |-> RMedian(time),
              time_intv_mean |-> RMean(time),
              time_intv_min |-> RMin(time),
              time_intv_max |-> RMax(time),
              dist_total_miles |-> RSum(dist),
              dist_intv_med_miles |-> RMedian(dist),
              dist_intv_mean_miles |-> RMean(dist),
              speed_min_mph |-> RMin(speed),
              speed_max_mph |-> RMax(speed),
              speed_med_mph |-> RMedian(speed),
              speed_mean_mph |-> RMean(speed)])

MetadataColumns ==
    {"line_ref", "direction_ref", "origin_ref", "origin_name", "destination_ref",
     "destination_name", "hour", "vehicle_journey_date_ref", "journey_date_line_ref",
     "vehicle_ref"}

\* journey_df[[...]].iloc[0]
Metadata(journey_df) == [c \in MetadataColumns |-> journey_df[1][c]]

\* metadata.append(journey_stats)
AppendStats(metadata, stats) ==
    IF stats.tag = "raise" THEN stats ELSE Value(metadata @@ stats.val)

summarise_journey(journey_df) ==
    AppendStats(Metadata(journey_df), summarise_journey_stats(calculate_deltas(journey_df)))

JourneyKeys(df) == {df[i].journey_date_line_ref : i \in 1..Len(df)}

\* One group of groupby("journey_date_line_ref"): its rows, in the frame's order.
Group(df, key) == SelectSeq(df, LAMBDA r : r.journey_date_line_ref = key)

\* The first row of every group, in the order groupby sorts the keys: the keys
\* of the modelled reports differ in the departure time alone, and their
\* zero-padded text sorts as the departure times do.
FirstRows(df) ==
    SortSeq(SelectSeq(df, LAMBDA r : Group(df, r.journey_date_line_ref)[1] = r),
            LAMBDA a, b : a.origin_aimed_departure_time < b.origin_aimed_departure_time)

\* The frame made of the results of apply, one row per group, or the
\* exception of the first group that raised.
Combine(results) ==
    IF \E i \in 1..Len(results) : results[i].tag = "raise"
    THEN results[CHOOSE i \in 1..Len(results) :
                     /\ results[i].tag = "raise"
                     /\ \A j \in 1..(i - 1) : results[j].tag # "raise"]
    ELSE Value([i \in 1..Len(results) |-> results[i].val])

\* apply(summarise_journey) over the groups whose first rows are firsts
ApplyToGroups(locations_df, firsts) ==
    [i \in 1..Len(firsts) |->
        summarise_journey(Group(locations_df, firsts[i].journey_date_line_ref))]

\* groupby(["journey_date_line_ref"]).apply(summarise_journey)
summarise_all_journeys(locations_df) ==
    Combine(ApplyToGroups(locations_df, FirstRows(locations_df)))

\* The branch on processed_locations_df.shape[0] >= 1
SummariseIfAny(processed_locations_df) ==
    IF Len(processed_locations_df) >= 1
    THEN summarise_all_journeys(processed_locations_df)
    ELSE None

convert_locations_to_journey_summaries(locations_df) ==
    SummariseIfAny(preprocess_locations(locations_df, drop_threshold))

-----------------------------------------------------------------------------
(* summarise_hour_stats, summarise_hour, summarise_all_hours *)

Columns(df) == IF df = <<>> THEN {} ELSE DOMAIN df[1]

HourStatColumns ==
    {"num_stationary", "num_points", "time_total_hrs", "time_intv_mean",
     "time_intv_med", "time_intv_min", "time_intv_max", "dist_total_miles",
     "dist_intv_med_miles", "dist_intv_mean_miles", "speed_min_mph",
     "speed_max_mph", "speed_med_mph", "speed_mean_mph"}

\* A column of integers as floats.
IntColumn(df, c) == [i \in 1..Len(df) |-> Rat(df[i][c], 1)]

\* The dict is built in source order: the first column it reads is
\* "num_stationary", and a frame without that column raises KeyError there.
summarise_hour_stats(hour_df) ==
    IF "num_stationary" \notin Columns(hour_df) THEN Raise("KeyError: 'num_stationary'")
    ELSE IF ~(HourStatColumns \subseteq Columns(hour_df)) THEN Raise("KeyError")
    ELSE Value(
        [num_journeys |-> Len(hour_df),
         num_stationary_mean |-> RMean(IntColumn(hour_df, "num_stationary")),
         num_stationary_med |-> RMedian(IntColumn(hour_df, "num_stationary")),
         num_stationary_min |-> RMin(IntColumn(hour_df, "num_stationary")),
         num_stationary_max |-> RMax(IntColumn(hour_df, "num_stationary")),
         num_points_mean |-> RMean(IntColumn(hour_df, "num_points")),
         num_points_med |-> RMedian(IntColumn(hour_df, "num_points")),
         num_points_max |-> RMax(IntColumn(hour_df, "num_points")),
         num_points_min |-> RMin(IntColumn(hour_df, "num_points")),
         time_total_mean_hrs |-> RMean(Column(hour_df, "time_total_hrs")),
         time_total_med_hrs |-> RMean(Column(hour_df, "time_total_hrs")),
         time_total_min_hrs |-> RMax(Column(hour_df, "time_total_hrs")),
         time_total_max_hrs |-> RMin(Column(hour_df, "time_total_hrs")),
         time_intv_mean |-> RMean(Column(hour_df, "time_intv_mean")),
         time_intv_med |-> RMean(Column(hour_df, "time_intv_med")),
         time_intv_min |-> RMin(Column(hour_df, "time_intv_min")),
         time_intv_max |-> RMax(Column(hour_df, "time_intv_max")),
         dist_total_mean_miles |-> RMean(Column(hour_df, "dist_total_miles")),
         dist_total_med_miles |-> RMedian(Column(hour_df, "dist_total_miles")),
         dist_total_min_miles |-> RMin(Column(hour_df, "dist_total_miles")),
         dist_total_max_miles |-> RMax(Column(hour_df, "dist_total_miles")),
         dist_intv_med_miles |-> RMean(Column(hour_df, "dist_intv_med_miles")),
         dist_intv_mean_miles |-> RMean(Column(hour_df, "dist_intv_mean_miles")),
         speed_min_mph |-> RMin(Column(hour_df, "speed_min_mph")),
         speed_max_mph |-> RMax(Column(hour_df, "speed_max_mph")),
         speed_med_mph |-> RMean(Column(hour_df, "speed_med_mph")),
         speed_mean_mph |-> RMean(Column(hour_df, "speed_mean_mph"))])

summarise_hour(summary_journey_df) ==
    AppendStats(Metadata(summary_journey_df), summarise_hour_stats(summary_journey_df))

\* One group of groupby(["direction_ref", "hour"]).
HourGroup(df, direction, hr) ==
    SelectSeq(df, LAMBDA r : r.direction_ref = direction /\ r.hour = hr)

HourKeys(df) == {<<df[i].direction_ref, df[i].hour>> : i \in 1..Len(df)}

\* The rows of the frame made of the results of apply, or the exception a
\* group raised.
CombineHours(results) ==
    IF \E r \in results : r.tag = "raise"
    THEN CHOOSE r \in results : r.tag = "raise"
    ELSE Value({r.val : r \in results})

\* groupby(["direction_ref", "hour"]).apply(summarise_hour).reset_index(drop=True)
summarise_all_hours(summarised_journeys) ==
    CombineHours({summarise_hour(HourGroup(summarised_journeys, g[1], g[2])) :
                      g \in HourKeys(summarised_journeys)})

\* The function reads processed_locations, a name that is bound nowhere.
convert_locations_to_hour_summaries(locations_df) ==
    Raise("NameError: name 'processed_locations' is not defined")

-----------------------------------------------------------------------------
(* process_day and process_all_in_db *)

\* dateutil.rrule.rrule(freq, interval, dtstart, until) for a period of step
\* ticks: dtstart, dtstart + step, ... up to and including until.
rrule(step, dtstart, until) ==
    IF until < dtstart THEN <<>>
    ELSE [i \in 1..((until - dtstart) \div step + 1) |-> dtstart + (i - 1) * step]

Zip(a, b) ==
    [i \in 1..(IF Len(a) < Len(b) THEN Len(a) ELSE Len(b)) |-> <<a[i], b[i]>>]

timedelta_hours(h) == h * TicksPerHour

day_rrule(start, end, size) ==
    rrule(timedelta_hours(size), start, end - timedelta_hours(size))

offset_day_rrule(start, end, size) ==
    rrule(timedelta_hours(size), start + timedelta_hours(size), end)

\* The (start_hour, end_hour) pairs process_day loops over.
Chunks(start, end, size) == Zip(day_rrule(start, end, size), offset_day_rrule(start, end, size))

\* The query, were it to filter on the report's own timestamp.
hour_bus_locs_by_timestamp(table, start_hour, end_hour) ==
    SelectSeq(table, LAMBDA r : r.timestamp >= start_hour /\ r.timestamp < end_hour)

\* The query of one chunk: the rows whose origin_aimed_departure_time lies in
\* [start_hour, end_hour), by ascending id.
hour_bus_locs(table, start_hour, end_hour) ==
    SelectSeq(table, LAMBDA r : /\ r.origin_aimed_departure_time >= start_hour
                                /\ r.origin_aimed_departure_time < end_hour)

SinkKeys(s) == {row.journey_date_line_ref : row \in s}

\* The insert into a table without the unique constraint.
bulk_insert_without_unique(s, rows) ==
    Value(s \cup {[id |-> Cardinality(s) + i] @@ rows[i] : i \in 1..Len(rows)})

\* session.bulk_insert_mappings + session.commit() under the unique
\* constraint on journey_summary.journey_date_line_ref: one transaction.
bulk_insert(s, rows) ==
    IF \E i \in 1..Len(rows) : rows[i].journey_date_line_ref \in SinkKeys(s)
    THEN Raise("IntegrityError: duplicate key journey_date_line_ref")
    ELSE Value(s \cup {[id |-> Cardinality(s) + i] @@ rows[i] : i \in 1..Len(rows)})

\* The first n of the rows, with the primary keys the insert gave them.
Inserted(s, rows, n) == {[id |-> Cardinality(s) + i] @@ rows[i] : i \in 1..n}

\* The sink, were every inserted row committed on its own.
rollback_keeping_inserted(s, rows, n) == s \cup Inserted(s, rows, n)

\* The sink after the insert or the commit failed with n of the rows
\* inserted: session.commit() was not reached, and the rows are those of a
\* transaction that is never committed.
rollback(s, rows, n) == s

\* The outcome of the insert and commit.
Committed(stored) ==
    IF stored.tag = "raise" THEN stored ELSE [tag |-> "commit", sink |-> stored.val]

\* The branch on hour_summaries_df is not None
StoreSummaries(s, hour_summaries_df) ==
    IF hour_summaries_df.tag = "raise" THEN hour_summaries_df
    ELSE IF hour_summaries_df.tag = "value"
    THEN Committed(bulk_insert(s, hour_summaries_df.val))
    ELSE [tag |-> "print", msg |-> "Not enough bus locations"]

\* The branch on hour_bus_locs_df.shape[0] > 1
SummariseChunk(s, hour_bus_locs_df) ==
    IF Len(hour_bus_locs_df) > 1
    THEN StoreSummaries(s, convert_locations_to_journey_summaries(hour_bus_locs_df))
    ELSE [tag |-> "print", msg |-> "No valid journeys"]

\* The body of process_day's loop for one chunk, from the sink s:
\* "commit" with the new sink, "print" (nothing stored) or "raise".
ChunkBody(table, s, start_hour, end_hour) ==
    SummariseChunk(s, hour_bus_locs(table, start_hour, end_hour))

\* What convert_locations_to_journey_summaries returns for the rows of a
\* chunk (None when the chunk has one row or no row and it is not called).
SummariesOf(hour_bus_locs_df) ==
    IF Len(hour_bus_locs_df) > 1
    THEN convert_locations_to_journey_summaries(hour_bus_locs_df)
    ELSE None

ChunkSummaries(table, start_hour, end_hour) ==
    SummariesOf(hour_bus_locs(table, start_hour, end_hour))

\* The rest of process_day's loop after one chunk's body.
RECURSIVE process_day_from(_, _, _, _)
AfterBody(table, s, pairs, i, body) ==
    IF body.tag = "raise" THEN [sink |-> s, raised |-> TRUE]
    ELSE process_day_from(table, IF body.tag = "commit" THEN body.sink ELSE s,
                          pairs, i + 1)

\* process_day run to its end from the sink s: the sink it leaves and
\* whether it returned or raised.
process_day_from(table, s, pairs, i) ==
    IF i > Len(pairs) THEN [sink |-> s, raised |-> FALSE]
    ELSE AfterBody(table, s, pairs, i, ChunkBody(table, s, pairs[i][1], pairs[i][2]))

process_day(table, s, start, end, size) ==
    process_day_from(table, s, Chunks(start, end, size), 1)

\* datetime.date() as a day number, and the datetime rrule makes of a date
DateOf(t) == t \div DayTicks
Midnight(day) == day * DayTicks

first_dt(table) ==
    CHOOSE t \in {table[i].origin_aimed_departure_time : i \in 1..Len(table)} :
        \A i \in 1..Len(table) : t <= table[i].origin_aimed_departure_time

last_dt(table) ==
    CHOOSE t \in {table[i].origin_aimed_departure_time : i \in 1..Len(table)} :
        \A i \in 1..Len(table) : t >= table[i].origin_aimed_departure_time

\* The pairs of a loop over every day from the first to the last.
DayPairs_through_last_day(table) ==
    Zip(rrule(DayTicks, Midnight(DateOf(first_dt(table))), Midnight(DateOf(last_dt(table)))),
        rrule(DayTicks, Midnight(DateOf(first_dt(table)) + 1),
              Midnight(DateOf(last_dt(table)) + 1)))

\* zip(first_rrule, second_rrule) of process_all_in_db
DayPairs(table) ==
    LET first_date == DateOf(first_dt(table))
        second_date == DateOf(first_dt(table)) + 1
        last_date == DateOf(last_dt(table))
    IN  Zip(rrule(DayTicks, Midnight(first_date), Midnight(last_date - 1)),
            rrule(DayTicks, Midnight(second_date), Midnight(last_date)))

-----------------------------------------------------------------------------
(* generate_daily_summary *)

\* The rows of journey_summary, by ascending primary key.
TableRows(s) == [i \in 1..Cardinality(s) |-> CHOOSE row \in s : row.id = i]

\* date '...' of PostgreSQL for the text of a datetime, compared with a
\* timestamp: the midnight the day of the datetime begins with.
SqlDate(t) == Midnight(DateOf(t))

\* WHERE hour <= date '{start_dt - 1 day}' and hour > date '{start_dt - (num_days - 1) days}'
WhereHour(rows, start, num_days) ==
    SelectSeq(rows, LAMBDA row : /\ row.hour <= SqlDate(start - DayTicks)
                                 /\ row.hour > SqlDate(start - (num_days - 1) * DayTicks))

\* The MIN, MAX, AVG and COUNT(*) of one group of the SELECT.
Aggregates(group) ==
    [num_points_stationary_min |-> RMin(IntColumn(group, "num_points_stationary")),
     num_points_stationary_max |-> RMax(IntColumn(group, "num_points_stationary")),
     num_points_stationary_avg |-> RMean(IntColumn(group, "num_points_stationary")),
     time_total_hrs_min |-> RMin(Column(group, "time_total_hrs")),
     time_total_hrs_max |-> RMax(Column(group, "time_total_hrs")),
     time_total_hrs_avg |-> RMean(Column(group, "time_total_hrs")),
     speed_mean_mph_min |-> RMin(Column(group, "speed_mean_mph")),
     speed_mean_mph_max |-> RMax(Column(group, "speed_mean_mph")),
     speed_mean_mph_avg |-> RMean(Column(group, "speed_mean_mph")),
     speed_med_mph_min |-> RMin(Column(group, "speed_med_mph")),
     speed_med_mph_max |-> RMax(Column(group, "speed_med_mph")),
     speed_med_mph_avg |-> RMean(Column(group, "speed_med_mph")),
     line_ref |-> group[1].line_ref,
     num_journeys |-> Len(group)]

\* extract('hour' from hour)
hour_num(row) == (row.hour % DayTicks) \div TicksPerHour

\* detailed_sql: GROUP BY hour, line_ref
detailed_sql(rows) ==
    {[hour |-> g[1]] @@ Aggregates(SelectSeq(rows, LAMBDA row : <<row.hour, row.line_ref>> = g)) :
        g \in {<<rows[i].hour, rows[i].line_ref>> : i \in 1..Len(rows)}}

\* summary_sql: GROUP BY hour_num, line_ref
summary_sql(rows) ==
    {[hour_num |-> g[1]]
         @@ Aggregates(SelectSeq(rows, LAMBDA row : <<hour_num(row), row.line_ref>> = g)) :
        g \in {<<hour_num(rows[i]), rows[i].line_ref>> : i \in 1..Len(rows)}}

\* json_obj of generate_daily_summary over the table s
generate_daily_summary(s, start, num_detailed_days, num_summary_days) ==
    [detailed |-> detailed_sql(WhereHour(TableRows(s), start, num_detailed_days)),
     summary |-> summary_sql(WhereHour(TableRows(s), start, num_summary_days)),
     num_days |-> num_detailed_days,
     start |-> StrfDate(start)]

-----------------------------------------------------------------------------
(* The runs of the summariser *)

StartTimes == {At(0, 1, 0)}
SpanHours == {24}
ChunkSizes == {1, 5, 24}

\* One run of the summariser per behaviour.
CanStart == pc = "idle"

\* process_day(session, start, end, size) is called (as --process_yesterday does).
ProcessDayStart(start, end, size) ==
    /\ CanStart
    /\ pc' = "process_day"
    /\ mode' = "day"
    /\ start_dt' = start
    /\ end_dt' = end
    /\ chunk_size' = size
    /\ chunks' = Chunks(start, end, size)
    /\ k' = 0
    /\ fetched' = <<>>
    /\ days' = <<>>
    /\ err' = ""
    /\ UNCHANGED <<db, sink, day_pairs, day_i, frame, out>>

InLoop == pc = "process_day" /\ k < Len(chunks)

Body == ChunkBody(db, sink, chunks[k + 1][1], chunks[k + 1][2])

\* The query of the iteration, recorded when it returned rows.
Fetched(lo, hi, df) ==
    IF df = <<>> THEN fetched
    ELSE Append(fetched, [lo |-> lo, hi |-> hi, ids |-> {df[i].id : i \in 1..Len(df)}])

Fetch ==
    fetched' = Fetched(chunks[k + 1][1], chunks[k + 1][2],
                       hour_bus_locs(db, chunks[k + 1][1], chunks[k + 1][2]))

Commit(body) ==
    /\ body.tag = "commit"
    /\ sink' = body.sink

RaiseOf(body) ==
    /\ body.tag = "raise"
    /\ err' = body.err

\* One iteration that stores the chunk's summaries and commits.
ChunkCommit ==
    /\ InLoop
    /\ Commit(Body)
    /\ k' = k + 1
    /\ Fetch
    /\ UNCHANGED <<db, pc, mode, start_dt, end_dt, chunk_size, chunks, day_pairs, day_i,
                   days, err, frame, out>>

\* One iteration that only prints: no rows, one row, or no journey left.
ChunkSkip ==
    /\ InLoop
    /\ Body.tag = "print"
    /\ k' = k + 1
    /\ Fetch
    /\ UNCHANGED <<db, sink, pc, mode, start_dt, end_dt, chunk_size, chunks, day_pairs,
                   day_i, days, err, frame, out>>

\* One iteration that raises: nothing catches it, the run ends.
ChunkRaise ==
    /\ InLoop
    /\ RaiseOf(Body)
    /\ pc' = "raised"
    /\ Fetch
    /\ UNCHANGED <<db, sink, mode, start_dt, end_dt, chunk_size, chunks, k, day_pairs,
                   day_i, days, frame, out>>

\* The loop of process_day is exhausted: it returns.
ProcessDayReturn ==
    /\ pc = "process_day"
    /\ k = Len(chunks)
    /\ pc' = IF mode = "all" THEN "process_all" ELSE "done"
    /\ UNCHANGED <<db, sink, mode, start_dt, end_dt, chunk_size, chunks, k, day_pairs, day_i,
                   fetched, days, err, frame, out>>

\* process_all_in_db(session) is called (--process_all): on an empty table
\* .first() is None and reading its attribute raises.
ProcessAllStart ==
    /\ CanStart
    /\ mode' = "all"
    /\ fetched' = <<>>
    /\ days' = <<>>
    /\ day_i' = 0
    /\ IF db = <<>>
       THEN /\ pc' = "raised"
            /\ err' = "AttributeError: 'NoneType' object has no attribute"
            /\ UNCHANGED day_pairs
       ELSE /\ pc' = "process_all"
            /\ err' = ""
            /\ day_pairs' = DayPairs(db)
    /\ UNCHANGED <<db, sink, start_dt, end_dt, chunk_size, chunks, k, frame, out>>

\* One iteration of process_all_in_db's loop: process_day(day_start, day_end).
ProcessAllNextDay ==
    /\ pc = "process_all"
    /\ day_i < Len(day_pairs)
    /\ pc' = "process_day"
    /\ start_dt' = day_pairs[day_i + 1][1]
    /\ end_dt' = day_pairs[day_i + 1][2]
    /\ chunk_size' = 1
    /\ chunks' = Chunks(day_pairs[day_i + 1][1], day_pairs[day_i + 1][2], 1)
    /\ k' = 0
    /\ day_i' = day_i + 1
    /\ days' = Append(days, day_pairs[day_i + 1][1])
    /\ UNCHANGED <<db, sink, mode, day_pairs, fetched, err, frame, out>>

ProcessAllReturn ==
    /\ pc = "process_all"
    /\ day_i = Len(day_pairs)
    /\ pc' = "done"
    /\ UNCHANGED <<db, sink, mode, start_dt, end_dt, chunk_size, chunks, k, day_pairs, day_i,
                   fetched, days, err, frame, out>>

Init ==
    /\ db \in Tables
    /\ sink = {}
    /\ pc = "idle"
    /\ mode = "none"
    /\ start_dt = 0
    /\ end_dt = 0
    /\ chunk_size = 1
    /\ chunks = <<>>
    /\ k = 0
    /\ day_pairs = <<>>
    /\ day_i = 0
    /\ fetched = <<>>
    /\ days = <<>>
    /\ err = ""
    /\ frame = <<>>
    /\ out = None

Next ==
    \/ \E start \in StartTimes, span \in SpanHours, size \in ChunkSizes :
           ProcessDayStart(start, start + timedelta_hours(span), size)
    \/ ChunkCommit
    \/ ChunkSkip
    \/ ChunkRaise
    \/ ProcessDayReturn
    \/ ProcessAllStart
    \/ ProcessAllNextDay
    \/ ProcessAllReturn

Spec == Init /\ [][Next]_vars

-----------------------------------------------------------------------------
(* Runs after runs, and failures of the database *)

\* A report of the modelled universe, by the fields that vary.
Report(departure, timestamp, lat) ==
    CHOOSE r \in Reports : /\ r.origin_aimed_departure_time = departure
                           /\ r.timestamp = timestamp
                           /\ r.vehicle_lat = lat

\* Tables of two journeys of two pings each, one scheduled at 23:30 and one at
\* 00:30 of the next day, on different latitudes.
TwoJourneyTables ==
    {WithIds(<<Report(At(0, 23, 1), At(0, 23, 1), l[1]), Report(At(0, 23, 1), At(1, 1, 1), l[1]),
               Report(At(1, 0, 1), At(0, 23, 1), l[2]), Report(At(1, 0, 1), At(1, 1, 1), l[2])>>) :
        l \in {l \in Lats \X Lats : l[1] # l[2]}}

Ended == pc \in {"done", "raised"}

\* The process has ended and the summariser is started again, on the same
\* tables.
Restart ==
    /\ Ended
    /\ pc' = "idle"
    /\ mode' = "none"
    /\ start_dt' = 0
    /\ end_dt' = 0
    /\ chunk_size' = 1
    /\ chunks' = <<>>
    /\ k' = 0
    /\ day_pairs' = <<>>
    /\ day_i' = 0
    /\ fetched' = <<>>
    /\ days' = <<>>
    /\ err' = ""
    /\ UNCHANGED <<db, sink, frame, out>>

SourceError == "OperationalError: bus_location"
SinkError == "OperationalError: journey_summary"

\* The database can fail under a run, and has recovered under a re-run.
CanFail == InLoop /\ mode # "rerun"

\* pd.read_sql raises: the data source is unavailable.
SourceFails ==
    /\ CanFail
    /\ pc' = "raised"
    /\ err' = SourceError
    /\ UNCHANGED <<db, sink, mode, start_dt, end_dt, chunk_size, chunks, k, day_pairs,
                   day_i, fetched, days, frame, out>>

\* The insert of n of the rows is followed by a failure of the sink.
FailedStore(hour_summaries_df) ==
    /\ hour_summaries_df.tag = "value"
    /\ \E n \in 0..Len(hour_summaries_df.val) :
           sink' = rollback(sink, hour_summaries_df.val, n)

\* bulk_insert_mappings or commit raises: the sink is unavailable.
SinkFails ==
    /\ CanFail
    /\ FailedStore(ChunkSummaries(db, chunks[k + 1][1], chunks[k + 1][2]))
    /\ pc' = "raised"
    /\ err' = SinkError
    /\ Fetch
    /\ UNCHANGED <<db, mode, start_dt, end_dt, chunk_size, chunks, k, day_pairs, day_i,
                   days, frame, out>>

\* The chunks the loop has gone through that had summaries, which the run
\* has committed.
CommittedChunks ==
    {i \in 1..k : ChunkSummaries(db, chunks[i][1], chunks[i][2]).tag = "value"}

\* process_day is called again over the range of a run that a failure of the
\* database ended after it had committed a chunk.
Rerun ==
    /\ pc = "raised"
    /\ mode = "day"
    /\ err \in {SourceError, SinkError}
    /\ CommittedChunks # {}
    /\ pc' = "process_day"
    /\ mode' = "rerun"
    /\ k' = 0
    /\ fetched' = <<>>
    /\ err' = ""
    /\ UNCHANGED <<db, sink, start_dt, end_dt, chunk_size, chunks, day_pairs, day_i, days,
                   frame, out>>

InitRerun ==
    /\ db \in Tables \cup TwoJourneyTables
    /\ sink = {}
    /\ pc = "idle"
    /\ mode = "none"
    /\ start_dt = 0
    /\ end_dt = 0
    /\ chunk_size = 1
    /\ chunks = <<>>
    /\ k = 0
    /\ day_pairs = <<>>
    /\ day_i = 0
    /\ fetched = <<>>
    /\ days = <<>>
    /\ err = ""
    /\ frame = <<>>
    /\ out = None

NextRerun ==
    \/ Next
    \/ Restart
    \/ SourceFails
    \/ SinkFails
    \/ Rerun

SpecRerun == InitRerun /\ [][NextRerun]_vars

-----------------------------------------------------------------------------
(* The functions of the pipeline applied to one window of pings *)

Reverse(df) == [i \in 1..Len(df) |-> df[Len(df) + 1 - i]]

\* The windows: rows with distinct ids, by ascending or by descending id.
Frames == Tables \cup {Reverse(t) : t \in Tables}

Applied(fn, arg, res) == [fn |-> fn, arg |-> arg, res |-> res]

NotYetApplied == out = None

Preprocess ==
    /\ NotYetApplied
    /\ out' = Applied("preprocess_locations", frame,
                      preprocess_locations(frame, drop_threshold))
    /\ UNCHANGED <<orch_vars, frame>>

\* preprocess_locations applied to its own result.
PreprocessAgain ==
    /\ NotYetApplied
    /\ out' = Applied("preprocess_locations again",
                      preprocess_locations(frame, drop_threshold),
                      preprocess_locations(preprocess_locations(frame, drop_threshold),
                                           drop_threshold))
    /\ UNCHANGED <<orch_vars, frame>>

\* The orders in which the rows of a window can arrive.
Orderings(df) == {[i \in 1..Len(df) |-> df[p[i]]] : p \in Permutations(1..Len(df))}

\* preprocess_locations applied to the window and to the same rows in another
\* order of arrival.
PreprocessReordered ==
    /\ NotYetApplied
    /\ \E reordered \in Orderings(frame) \ {frame} :
           out' = Applied("preprocess_locations reordered",
                          [locations |-> frame, reordered |-> reordered],
                          [locations |-> preprocess_locations(frame, drop_threshold),
                           reordered |-> preprocess_locations(reordered, drop_threshold)])
    /\ UNCHANGED <<orch_vars, frame>>

\* The groups summarise_all_journeys hands to summarise_journey.
JourneyGroups(df) == {Group(df, key) : key \in JourneyKeys(df)}

CalculateDeltas ==
    /\ NotYetApplied
    /\ \E journey_df \in JourneyGroups(preprocess_locations(frame, drop_threshold)) :
           out' = Applied("calculate_deltas", journey_df, calculate_deltas(journey_df))
    /\ UNCHANGED <<orch_vars, frame>>

SummariseJourney ==
    /\ NotYetApplied
    /\ \E journey_df \in JourneyGroups(preprocess_locations(frame, drop_threshold)) :
           out' = Applied("summarise_journey", journey_df, summarise_journey(journey_df))
    /\ UNCHANGED <<orch_vars, frame>>

ConvertToJourneySummaries ==
    /\ NotYetApplied
    /\ out' = Applied("convert_locations_to_journey_summaries", frame,
                      convert_locations_to_journey_summaries(frame))
    /\ UNCHANGED <<orch_vars, frame>>

\* summarise_all_hours applied to a frame summarise_all_journeys returned.
HoursOf(summarised) ==
    /\ summarised.tag = "value"
    /\ out' = Applied("summarise_all_hours", summarised.val,
                      summarise_all_hours(summarised.val))

SummariseAllHours ==
    /\ NotYetApplied
    /\ HoursOf(convert_locations_to_journey_summaries(frame))
    /\ UNCHANGED <<orch_vars, frame>>

ConvertToHourSummaries ==
    /\ NotYetApplied
    /\ out' = Applied("convert_locations_to_hour_summaries", frame,
                      convert_locations_to_hour_summaries(frame))
    /\ UNCHANGED <<orch_vars, frame>>

\* The reference datetimes and the numbers of days of the daily summaries.
ReferenceTimes == {At(1, 0, 0), At(1, 9, 1), At(2, 0, 0), At(2, 9, 1)}
DetailedDays == {1, 2, 3}
SummaryDays == {2, 3}

\* generate_daily_summary over the table that holds the summaries stored.
DailySummary(stored, start, num_detailed_days, num_summary_days) ==
    /\ stored.tag = "value"
    /\ out' = Applied("generate_daily_summary",
                      [journey_summary |-> stored.val, start_dt |-> start,
                       num_detailed_days |-> num_detailed_days,
                       num_summary_days |-> num_summary_days],
                      generate_daily_summary(stored.val, start, num_detailed_days,
                                             num_summary_days))

\* The summaries of the window stored in an empty journey_summary.
StoredOf(summaries) ==
    IF summaries.tag = "value" THEN bulk_insert({}, summaries.val) ELSE summaries

GenerateDailySummary ==
    /\ NotYetApplied
    /\ \E start \in ReferenceTimes, nd \in DetailedDays, ns \in SummaryDays :
           DailySummary(StoredOf(convert_locations_to_journey_summaries(frame)),
                        start, nd, ns)
    /\ UNCHANGED <<orch_vars, frame>>

InitPipeline ==
    /\ frame \in Frames
    /\ out = None
    /\ db = <<>>
    /\ sink = {}
    /\ pc = "idle"
    /\ mode = "none"
    /\ start_dt = 0
    /\ end_dt = 0
    /\ chunk_size = 1
    /\ chunks = <<>>
    /\ k = 0
    /\ day_pairs = <<>>
    /\ day_i = 0
    /\ fetched = <<>>
    /\ days = <<>>
    /\ err = ""

NextPipeline ==
    \/ Preprocess
    \/ PreprocessAgain
    \/ CalculateDeltas
    \/ SummariseJourney
    \/ ConvertToJourneySummaries
    \/ SummariseAllHours
    \/ ConvertToHourSummaries
    \/ GenerateDailySummary
    \/ PreprocessReordered

SpecPipeline == InitPipeline /\ [][NextPipeline]_vars

-----------------------------------------------------------------------------
(* Properties of process_day and process_all_in_db, under Spec *)

\* The JourneySummary rows of a sink without their primary keys.
Summaries(s) == {[c \in DOMAIN row \ {"id"} |-> row[c]] : row \in s}

OtherChunkSize == IF chunk_size = 1 THEN HoursPerDay ELSE 1

\* C1: over the same stored pings and the same span, process_day with a chunk
\* size of 1 hour and process_day with a chunk size of 24 hours leave the same
\* JourneySummary rows in an initially empty sink.
C1_PartitionInvariance ==
    (mode = "day" /\ pc \in {"done", "raised"} /\ chunk_size \in {1, HoursPerDay})
        => Summaries(sink)
               = Summaries(process_day(db, {}, start_dt, end_dt, OtherChunkSize).sink)

\* Rows i and j of the table are pings of one JourneyKey.
SameJourney(i, j) == journey_date_line_ref(db[j]) = journey_date_line_ref(db[i])

\* The chunk queries of the run that selected row i.
SelectedBy(i) == {f \in 1..Len(fetched) : db[i].id \in fetched[f].ids}

\* The chunks the loop of process_day has gone through hold the time t.
Iterated(t) == k >= 1 /\ chunks[1][1] <= t /\ t < chunks[k][2]

\* C2: a journey is never split. A chunk query that selects a ping selects
\* every ping of its JourneyKey, whatever their timestamps, and is the only
\* one to select it: the query of the chunk that holds the scheduled departure
\* time, which has selected it once the loop has gone through that chunk. And
\* the pings of one JourneyKey get one HourBucket, the hour the departure time
\* lies in.
C2_JourneyNeverSplit ==
    \A i \in 1..Len(db) :
        /\ \A f \in SelectedBy(i) :
               /\ SelectedBy(i) = {f}
               /\ fetched[f].lo <= db[i].origin_aimed_departure_time
               /\ db[i].origin_aimed_departure_time < fetched[f].hi
               /\ \A j \in 1..Len(db) : SameJourney(i, j) => db[j].id \in fetched[f].ids
        /\ (mode = "day" /\ Iterated(db[i].origin_aimed_departure_time))
               => SelectedBy(i) # {}
        /\ \A j \in 1..Len(db) : hour(db[j]) # hour(db[i]) => ~SameJourney(i, j)
        /\ hour(db[i]) % TicksPerHour = 0
        /\ hour(db[i]) <= db[i].origin_aimed_departure_time
        /\ db[i].origin_aimed_departure_time < hour(db[i]) + TicksPerHour

\* A journey scheduled at 23:30 with a ping at 01:30 of the next day, selected
\* whole by the chunk of 23:00 and stored under the 23:00 HourBucket.
C2_Witness ==
    /\ pc = "done"
    /\ \E i, j \in 1..Len(db) :
           /\ i # j
           /\ db[i].origin_aimed_departure_time = At(0, 23, 1)
           /\ db[j].origin_aimed_departure_time = At(0, 23, 1)
           /\ db[j].timestamp = At(1, 1, 1)
           /\ \E f \in 1..Len(fetched) :
                  /\ fetched[f].lo = At(0, 23, 0)
                  /\ fetched[f].ids = {db[i].id, db[j].id}
           /\ \E row \in sink :
                  /\ row.journey_date_line_ref = journey_date_line_ref(db[i])
                  /\ row.hour = At(0, 23, 0)

\* C3: the chunks process_day iterates over are consecutive, pairwise
\* non-overlapping half-open intervals whose union is exactly
\* [start_dt, end_dt): every departure time of the range lies in exactly one
\* chunk and no chunk reaches outside the range.
C3_ChunksPartitionRange ==
    mode = "day" =>
        /\ \A t \in start_dt..(end_dt - 1) :
               Cardinality({i \in 1..Len(chunks) : chunks[i][1] <= t /\ t < chunks[i][2]}) = 1
        /\ \A i \in 1..Len(chunks) :
               start_dt <= chunks[i][1] /\ chunks[i][1] < chunks[i][2] /\ chunks[i][2] <= end_dt
        /\ \A i \in 1..(Len(chunks) - 1) : chunks[i][2] = chunks[i + 1][1]

\* The calendar days from the day of the minimum to the day of the maximum
\* scheduled departure time, ascending.
DaysOfData ==
    [i \in 1..(DateOf(last_dt(db)) - DateOf(first_dt(db)) + 1) |->
        Midnight(DateOf(first_dt(db)) + i - 1)]

DaysBeforeLast == SubSeq(DaysOfData, 1, Len(DaysOfData) - 1)

-----------------------------------------------------------------------------
(* Properties of the functions of the pipeline, under SpecPipeline *)

Did(fn) == out # None /\ out.fn = fn

\* The rows of the window that agree with row i on the compared columns.
DupClass(i) == {j \in 1..Len(frame) : DupSubset(frame[j]) = DupSubset(frame[i])}

\* The first row of the duplicate group of row i, in the order of the window.
FirstOf(i) == CHOOSE j \in DupClass(i) : \A m \in DupClass(i) : j <= m

\* The rows of the result that are rows of the duplicate group of row i.
Retained(i) == {m \in 1..Len(out.res) : \E j \in DupClass(i) : out.res[m].id = frame[j].id}

\* The pings of a JourneyKey left by the deduplication: the rows of the key
\* that are the first of their duplicate group.
Surviving(key) ==
    Cardinality({j \in 1..Len(frame) :
                    FirstOf(j) = j /\ journey_date_line_ref(frame[j]) = key})

\* C5 as stated: of two or more pings of the window that agree on (timestamp,
\* line_ref, direction_ref, lat, lon, bearing), preprocess_locations retains
\* exactly one.
C5_RetainsExactlyOne ==
    Did("preprocess_locations") =>
        \A i \in 1..Len(frame) :
            Cardinality(DupClass(i)) >= 2 => Cardinality(Retained(i)) = 1

\* C5: of two or more pings of the window that agree on (timestamp, line_ref,
\* direction_ref, lat, lon, bearing), preprocess_locations retains at most
\* one, the first of them in the order of the window, and it retains that one
\* exactly when its journey has at least the threshold of pings left after
\* the deduplication.
C5_RetainsFirstIfJourneyKept ==
    Did("preprocess_locations") =>
        \A i \in 1..Len(frame) :
            Cardinality(DupClass(i)) >= 2 =>
                /\ Cardinality(Retained(i)) <= 1
                /\ \A m \in Retained(i) : out.res[m].id = frame[FirstOf(i)].id
                /\ Cardinality(Retained(i)) = 1
                       <=> Surviving(journey_date_line_ref(frame[FirstOf(i)])) >= drop_threshold

\* A window given by descending id with two duplicates, of which the result
\* holds the first of the window (the higher id).
C5_Witness ==
    /\ Did("preprocess_locations")
    /\ \E i, j \in 1..Len(frame) :
           /\ i < j
           /\ frame[i].id > frame[j].id
           /\ j \in DupClass(i)
           /\ \E m \in 1..Len(out.res) : out.res[m].id = frame[i].id

\* C6: preprocess_locations applied to its own result returns that result: the
\* same pings, with the same derived keys, in the same order.
C6_Idempotent == Did("preprocess_locations again") => out.res = out.arg

\* A window of which the first pass dropped a ping and kept two.
C6_Witness ==
    /\ Did("preprocess_locations again")
    /\ Len(frame) > Len(out.arg)
    /\ Len(out.res) >= 2

\* The keys of the window with fewer surviving pings than the threshold.
ShortKeys ==
    {key \in {journey_date_line_ref(frame[i]) : i \in 1..Len(frame)} :
        Surviving(key) < drop_threshold}

\* C7: for a window that holds a JourneyKey with fewer pings left after the
\* deduplication than the threshold, convert_locations_to_journey_summaries
\* raises nothing and returns no JourneySummary of that key; and every key of
\* preprocess_locations' result has at least the threshold of pings there.
C7_ShortJourneyIgnored ==
    /\ (Did("convert_locations_to_journey_summaries") /\ ShortKeys # {}) =>
           /\ out.res.tag # "raise"
           /\ out.res.tag = "value" =>
                  \A m \in 1..Len(out.res.val) :
                      out.res.val[m].journey_date_line_ref \notin ShortKeys
    /\ Did("preprocess_locations") =>
           \A m \in 1..Len(out.res) :
               jdl_count(out.res, out.res[m].journey_date_line_ref) >= drop_threshold

\* The consecutive pairs of the sequence with a non-zero elapsed time.
MovingPairs(df) == {i \in 1..(Len(df) - 1) : df[i + 1].timestamp # df[i].timestamp}

\* The i-th smallest element of a set of numbers.
Nth(S, i) == CHOOSE x \in S : Cardinality({y \in S : y <= x}) = i

C9_EmptyDeltasSummarised ==
    (Did("summarise_journey") /\ calculate_deltas(out.arg) = <<>>) =>
        /\ out.res.tag = "value"
        /\ out.res.val.num_points = 0
        /\ out.res.val.speed_min_mph = NaN
        /\ out.res.val.speed_max_mph = NaN
        /\ out.res.val.speed_mean_mph = NaN

\* The (direction, hour) groups of the journey summaries with one row.
SingleJourneyHours == {g \in HourKeys(out.arg) : Len(HourGroup(out.arg, g[1], g[2])) = 1}

\* C10: for a (direction, hour) group of one JourneySummary,
\* summarise_all_hours returns an HourSummary with num_journeys = 1 whose min,
\* max and mean fields are equal for every statistic.
C10_SingleJourneyHour ==
    (Did("summarise_all_hours") /\ SingleJourneyHours # {}) =>
        /\ out.res.tag = "value"
        /\ \A g \in SingleJourneyHours :
               \E row \in out.res.val :
                   /\ row.direction_ref = g[1]
                   /\ row.hour = g[2]
                   /\ row.num_journeys = 1
                   /\ row.num_points_min = row.num_points_max
                   /\ row.num_points_min = row.num_points_mean
                   /\ row.time_total_min_hrs = row.time_total_max_hrs
                   /\ row.time_total_min_hrs = row.time_total_mean_hrs
                   /\ row.dist_total_min_miles = row.dist_total_max_miles
                   /\ row.dist_total_min_miles = row.dist_total_mean_miles
                   /\ row.speed_min_mph = row.speed_mean_mph
                   /\ row.speed_max_mph = row.speed_mean_mph

-----------------------------------------------------------------------------
(* Properties of runs after runs and of failing runs, under SpecRerun *)

\* The step adds to the sink all the summaries of the chunk, and only them.
CommitsWhole(hour_summaries_df) ==
    /\ hour_summaries_df.tag = "value"
    /\ sink \subseteq sink'
    /\ Cardinality(sink' \ sink) = Len(hour_summaries_df.val)
    /\ Summaries(sink' \ sink)
           = {hour_summaries_df.val[i] : i \in 1..Len(hour_summaries_df.val)}

\* C11: chunk commits are atomic. Every step of a run, the steps in which the
\* data source or the sink fails included, leaves the sink as it was or adds
\* to it all the JourneySummary rows of the chunk being processed: never some
\* of them.
C11_ChunkCommitsAtomic ==
    [][\/ sink' = sink
       \/ /\ InLoop
          /\ CommitsWhole(ChunkSummaries(db, chunks[k + 1][1], chunks[k + 1][2]))]_vars

\* The sink failed under a chunk of two summaries, and holds neither.
C11_Witness ==
    /\ pc = "raised"
    /\ err = SinkError
    /\ ChunkSummaries(db, chunks[k + 1][1], chunks[k + 1][2]).tag = "value"
    /\ Len(ChunkSummaries(db, chunks[k + 1][1], chunks[k + 1][2]).val) = 2
    /\ sink = {}
\* C12: re-processing is idempotent. When process_day is run again over the
\* range of a run that a failure ended after it had committed chunks, and the
\* database has recovered, the run completes, and the sink then holds the
\* JourneySummary rows of one run without a failure, no more and no less.
C12_RerunCompletes ==
    (mode = "rerun" /\ Ended) =>
        /\ pc = "done"
        /\ Summaries(sink)
               = Summaries(process_day(db, {}, start_dt, end_dt, chunk_size).sink)
\* C14: after any sequence of runs of process_day and process_all_in_db,
\* runs over the same range and over overlapping ranges included, the sink
\* holds at most one JourneySummary per JourneyKey, and a row once in the sink
\* stays in it as it is: no step removes or changes it.
C14_OneSummaryPerKey ==
    /\ [](\A a, b \in sink : a.journey_date_line_ref = b.journey_date_line_ref => a = b)
    /\ [][sink \subseteq sink']_vars

\* A run found the key of a summary that an earlier run had stored, and the
\* sink rejected it.
C14_Witness ==
    /\ pc = "raised"
    /\ err = "IntegrityError: duplicate key journey_date_line_ref"
    /\ \E row \in sink : \E f \in 1..Len(fetched) :
           /\ fetched[f].lo <= row.hour
           /\ row.hour < fetched[f].hi

-----------------------------------------------------------------------------
(* Properties of generate_daily_summary, under SpecPipeline *)

\* The hour lies in the num_days calendar days that end with the day before
\* the reference date.
InDaysBefore(hr, start, num_days) ==
    /\ Midnight(DateOf(start) - num_days) <= hr
    /\ hr < Midnight(DateOf(start))

\* The stored rows of the window of days that fall in the group of a view.
RowsOfWindow(num_days, same(_)) ==
    {row \in out.arg.journey_summary :
        InDaysBefore(row.hour, out.arg.start_dt, num_days) /\ same(row)}

\* C13: the "detailed" view of generate_daily_summary aggregates exactly the
\* JourneySummary rows whose hour bucket lies in the num_detailed_days calendar
\* days that end with the day before the reference date, and the "summary"
\* view those of the num_summary_days days: a group of a view counts the rows
\* of the window of its hour and line, and every row of the window is in a
\* group.
C13_WindowOfDays ==
    Did("generate_daily_summary") =>
        /\ \A g \in out.res.detailed :
               g.num_journeys =
                   Cardinality(RowsOfWindow(out.arg.num_detailed_days,
                       LAMBDA row : row.hour = g.hour /\ row.line_ref = g.line_ref))
        /\ \A row \in RowsOfWindow(out.arg.num_detailed_days, LAMBDA r : TRUE) :
               \E g \in out.res.detailed : g.hour = row.hour /\ g.line_ref = row.line_ref
        /\ \A g \in out.res.summary :
               g.num_journeys =
                   Cardinality(RowsOfWindow(out.arg.num_summary_days,
                       LAMBDA row : hour_num(row) = g.hour_num /\ row.line_ref = g.line_ref))
        /\ \A row \in RowsOfWindow(out.arg.num_summary_days, LAMBDA r : TRUE) :
               \E g \in out.res.summary :
                   g.hour_num = hour_num(row) /\ g.line_ref = row.line_ref
-----------------------------------------------------------------------------
(* Properties of the minima and maxima of the hour summaries, under SpecPipeline *)

\* The row of the hour summaries for a group of (direction, hour bucket).
HourRowOf(g) == CHOOSE row \in out.res.val : row.direction_ref = g[1] /\ row.hour = g[2]

\* The row reports the least and the greatest value of the columns of the
\* group, and its mean lies between them.
MinMeanMax(lo, mean, hi, lo_column, hi_column) ==
    /\ lo = RMin(lo_column)
    /\ hi = RMax(hi_column)
    /\ RLeq(lo, mean)
    /\ RLeq(mean, hi)

\* The minima and maxima of one row of the hour summaries over its group.
ReportsExtremes(row, group) ==
    /\ MinMeanMax(row.num_stationary_min, row.num_stationary_mean, row.num_stationary_max,
                  IntColumn(group, "num_points_stationary"),
                  IntColumn(group, "num_points_stationary"))
    /\ MinMeanMax(row.num_points_min, row.num_points_mean, row.num_points_max,
                  IntColumn(group, "num_points"), IntColumn(group, "num_points"))
    /\ MinMeanMax(row.time_total_min_hrs, row.time_total_mean_hrs, row.time_total_max_hrs,
                  Column(group, "time_total_hrs"), Column(group, "time_total_hrs"))
    /\ MinMeanMax(row.time_intv_min, row.time_intv_mean, row.time_intv_max,
                  Column(group, "time_intv_min"), Column(group, "time_intv_max"))
    /\ MinMeanMax(row.dist_total_min_miles, row.dist_total_mean_miles,
                  row.dist_total_max_miles,
                  Column(group, "dist_total_miles"), Column(group, "dist_total_miles"))
    /\ MinMeanMax(row.speed_min_mph, row.speed_mean_mph, row.speed_max_mph,
                  Column(group, "speed_min_mph"), Column(group, "speed_max_mph"))

\* C15: for every non-empty group of (direction, hour bucket) the hour summary
\* reports, for each journey statistic with min and max fields, the minimum and
\* the maximum of the statistic over the journey summaries of the group, and
\* min <= mean <= max.
C15_MinAndMaxOfGroup ==
    Did("summarise_all_hours") =>
        /\ out.res.tag = "value"
        /\ \A g \in HourKeys(out.arg) :
               /\ \E row \in out.res.val : row.direction_ref = g[1] /\ row.hour = g[2]
               /\ ReportsExtremes(HourRowOf(g), HourGroup(out.arg, g[1], g[2]))
-----------------------------------------------------------------------------
(* Properties of the order of arrival, under SpecPipeline *)

\* The rows are in ascending order of (timestamp, id).
IsSorted(df) == \A i \in 1..(Len(df) - 1) : ByTimestampThenId(df[i], df[i + 1])

\* C16: preprocess_locations returns, for the same rows in any two orders of
\* arrival, the same sequence of rows (the same ids, the same journey keys),
\* in ascending order of (timestamp, id).
C16_IndependentOfArrivalOrder ==
    Did("preprocess_locations reordered") =>
        /\ out.res.reordered = out.res.locations
        /\ IsSorted(out.res.locations)
        /\ IsSorted(out.res.reordered)

====
